---- MODULE Spec2Model ----
(***************************************************************************)
(* Attack Flow parser (attack-flow-parser.js): format detection, field     *)
(* extraction, graph construction with effect-chain resolution, tactic     *)
(* resolution and action sequencing.                                       *)
(*                                                                         *)
(* A JavaScript string whose characters the code inspects (a tactic name,  *)
(* a kill-chain phase name) is a sequence of one-character strings; an id  *)
(* or a tag the code only compares is a TLA+ string.  A list field that is *)
(* absent is the empty sequence: every use in the code guards the list     *)
(* with a truthiness test and then iterates it, so both behave alike.      *)
(***************************************************************************)
EXTENDS Integers, Sequences, FiniteSets, TLC

\* Frames the engine's call stack gives a recursion before it throws
\* RangeError ("Maximum call stack size exceeded").
MaxCallDepth == 6

\* Longest reference list (effect_refs, start_refs) drawn for a document.
MaxRefs == 2

\* Most query calls made on one parser.
MaxCalls == 3

VARIABLES
  rawData,   \* the document handed to the constructor
  pc,        \* "new": not yet constructed, "ready": parser built, "error": constructor threw
  error,     \* the exception the constructor threw, "none" otherwise
  parser,    \* the fields of the AttackFlowParser object
  lastCall,  \* the query operation called last, "none" before any
  result,    \* what that call returned
  warnings,  \* the console.warn records written so far, oldest first
  firstSequence,  \* what the first getActionSequence call returned
  calls,     \* the query operations called so far, oldest first
  timeline,  \* the TimelineVisualization object and what it has drawn
  status     \* the 'error-message' element and the timers pending on it

vars ==
  <<rawData, pc, error, parser, lastCall, result, warnings, firstSequence, calls,
    timeline, status>>

Undefined == "undefined"
Null == "null"

\* JavaScript truthiness of a scalar field.
Truthy(v) == v \notin {Undefined, Null, ""}

----------------------------------------------------------------------------
(* The ATT&CK tactic names of tacticMap, as character sequences. *)

\* "Reconnaissance"
StrReconnaissance ==
  <<"R","e","c","o","n","n","a","i","s","s","a","n","c","e">>

\* "Resource Development"
StrResourceDevelopment ==
  <<"R","e","s","o","u","r","c","e"," ","D","e","v","e","l","o","p","m","e","n","t">>

\* "Initial Access"
StrInitialAccess ==
  <<"I","n","i","t","i","a","l"," ","A","c","c","e","s","s">>

\* "Execution"
StrExecution ==
  <<"E","x","e","c","u","t","i","o","n">>

\* "Persistence"
StrPersistence ==
  <<"P","e","r","s","i","s","t","e","n","c","e">>

\* "Privilege Escalation"
StrPrivilegeEscalation ==
  <<"P","r","i","v","i","l","e","g","e"," ","E","s","c","a","l","a","t","i","o","n">>

\* "Defense Evasion"
StrDefenseEvasion ==
  <<"D","e","f","e","n","s","e"," ","E","v","a","s","i","o","n">>

\* "Credential Access"
StrCredentialAccess ==
  <<"C","r","e","d","e","n","t","i","a","l"," ","A","c","c","e","s","s">>

\* "Discovery"
StrDiscovery ==
  <<"D","i","s","c","o","v","e","r","y">>

\* "Lateral Movement"
StrLateralMovement ==
  <<"L","a","t","e","r","a","l"," ","M","o","v","e","m","e","n","t">>

\* "Collection"
StrCollection ==
  <<"C","o","l","l","e","c","t","i","o","n">>

\* "Command and Control"
StrCommandAndControl ==
  <<"C","o","m","m","a","n","d"," ","a","n","d"," ","C","o","n","t","r","o","l">>

\* "Exfiltration"
StrExfiltration ==
  <<"E","x","f","i","l","t","r","a","t","i","o","n">>

\* "Impact"
StrImpact ==
  <<"I","m","p","a","c","t">>

\* "Evasion"
StrEvasion ==
  <<"E","v","a","s","i","o","n">>

\* "Inhibit Response Function"
StrInhibitResponseFunction ==
  <<"I","n","h","i","b","i","t"," ","R","e","s","p","o","n","s","e"," ","F","u","n","c","t","i","o","n">>

\* "Impair Process Control"
StrImpairProcessControl ==
  <<"I","m","p","a","i","r"," ","P","r","o","c","e","s","s"," ","C","o","n","t","r","o","l">>

\* "Unknown"
StrUnknown ==
  <<"U","n","k","n","o","w","n">>

tacticMap ==
  << <<"TA0043", StrReconnaissance>>,
     <<"TA0042", StrResourceDevelopment>>,
     <<"TA0001", StrInitialAccess>>,
     <<"TA0002", StrExecution>>,
     <<"TA0003", StrPersistence>>,
     <<"TA0004", StrPrivilegeEscalation>>,
     <<"TA0005", StrDefenseEvasion>>,
     <<"TA0006", StrCredentialAccess>>,
     <<"TA0007", StrDiscovery>>,
     <<"TA0008", StrLateralMovement>>,
     <<"TA0009", StrCollection>>,
     <<"TA0011", StrCommandAndControl>>,
     <<"TA0010", StrExfiltration>>,
     <<"TA0040", StrImpact>>,
     <<"TA0027", StrInitialAccess>>,
     <<"TA0041", StrExecution>>,
     <<"TA0028", StrPersistence>>,
     <<"TA0029", StrPrivilegeEscalation>>,
     <<"TA0030", StrDefenseEvasion>>,
     <<"TA0031", StrCredentialAccess>>,
     <<"TA0032", StrDiscovery>>,
     <<"TA0033", StrLateralMovement>>,
     <<"TA0035", StrCollection>>,
     <<"TA0037", StrCommandAndControl>>,
     <<"TA0036", StrExfiltration>>,
     <<"TA0034", StrImpact>>,
     <<"TA0108", StrInitialAccess>>,
     <<"TA0104", StrExecution>>,
     <<"TA0110", StrPersistence>>,
     <<"TA0111", StrPrivilegeEscalation>>,
     <<"TA0103", StrEvasion>>,
     <<"TA0102", StrDiscovery>>,
     <<"TA0109", StrLateralMovement>>,
     <<"TA0100", StrCollection>>,
     <<"TA0101", StrCommandAndControl>>,
     <<"TA0107", StrInhibitResponseFunction>>,
     <<"TA0106", StrImpairProcessControl>>,
     <<"TA0105", StrImpact>> >>

----------------------------------------------------------------------------
(* String operations used by buildGraph. *)

LowerChars ==
  <<"a","b","c","d","e","f","g","h","i","j","k","l","m",
    "n","o","p","q","r","s","t","u","v","w","x","y","z">>

UpperChars ==
  <<"A","B","C","D","E","F","G","H","I","J","K","L","M",
    "N","O","P","Q","R","S","T","U","V","W","X","Y","Z">>

\* String.prototype.toUpperCase on one character.
ToUpperChar(c) ==
  IF \E i \in DOMAIN LowerChars : LowerChars[i] = c
  THEN UpperChars[CHOOSE i \in DOMAIN LowerChars : LowerChars[i] = c]
  ELSE c

\* String.prototype.toLowerCase on one character.
ToLowerChar(c) ==
  IF \E i \in DOMAIN UpperChars : UpperChars[i] = c
  THEN LowerChars[CHOOSE i \in DOMAIN UpperChars : UpperChars[i] = c]
  ELSE c

\* s.toLowerCase()
ToLowerCase(s) == [i \in DOMAIN s |-> ToLowerChar(s[i])]

\* s.split('-'): the words between hyphens, empty words kept.
RECURSIVE SplitHyphen(_, _)
SplitHyphen(s, word) ==
  IF s = <<>> THEN <<word>>
  ELSE IF Head(s) = "-" THEN <<word>> \o SplitHyphen(Tail(s), <<>>)
  ELSE SplitHyphen(Tail(s), Append(word, Head(s)))

\* w.charAt(0).toUpperCase() + w.slice(1)
Capitalize(w) ==
  IF w = <<>> THEN <<>> ELSE <<ToUpperChar(Head(w))>> \o Tail(w)

\* words.join(' ')
RECURSIVE JoinSpace(_)
JoinSpace(words) ==
  IF words = <<>> THEN <<>>
  ELSE IF Len(words) = 1 THEN Head(words)
  ELSE Head(words) \o <<" ">> \o JoinSpace(Tail(words))

\* phaseName.split('-').map(w => w.charAt(0).toUpperCase() + w.slice(1)).join(' ')
TitleCase(phaseName) ==
  LET words == SplitHyphen(phaseName, <<>>)
  IN JoinSpace([i \in DOMAIN words |-> Capitalize(words[i])])

\* this.tacticMap[tacticId]: the entry's name, or <<>> for undefined.
TacticMapHas(tacticId) == \E i \in DOMAIN tacticMap : tacticMap[i][1] = tacticId

TacticMapGet(tacticId) ==
  tacticMap[CHOOSE i \in DOMAIN tacticMap : tacticMap[i][1] = tacticId][2]

----------------------------------------------------------------------------
(* Objects.  One record shape holds every object of a document and every   *)
(* record the parser derives from one; a field an object does not carry is *)
(* Undefined (a scalar) or empty (a list).  The pass-through text fields   *)
(* (name, description, created, modified, ...) are copied by the code and  *)
(* never inspected; technique_id, confidence and execution_start stand for *)
(* them.                                                                   *)

BlankObj ==
  [ type |-> Undefined, id |-> Undefined, instance |-> Undefined,
    properties |-> <<>>, source |-> Undefined, target |-> Undefined,
    effect_refs |-> <<>>, on_true_refs |-> <<>>, on_false_refs |-> <<>>,
    source_ref |-> Undefined, target_ref |-> Undefined, start_refs |-> <<>>,
    tactic_id |-> Undefined, technique_id |-> Undefined,
    confidence |-> Undefined, execution_start |-> Undefined,
    kill_chain_phases |-> <<>> ]

\* The parser object right after the field initialisers of the constructor.
NoParser ==
  [ format |-> "none", objects |-> <<>>, attackFlow |-> <<>>,
    actions |-> <<>>, relationships |-> <<>>, assets |-> <<>>,
    conditions |-> <<>>, operators |-> <<>>,
    graph |-> [nodes |-> <<>>, edges |-> <<>>] ]

\* The objects of s whose type tag is t, in order.
OfType(s, t) == SelectSeq(s, LAMBDA o : o.type = t)

----------------------------------------------------------------------------
(* detectFormat *)

\* detectFormat in which a bundle without Attack Flow objects falls through
\* to the schema test instead of throwing.
DetectFormatFallsThrough(data) ==
  IF /\ data.type = "bundle" /\ data.has_objects
     /\ \/ \E i \in DOMAIN data.objects : data.objects[i].type = "attack-flow"
        \/ \E i \in DOMAIN data.objects : data.objects[i].type = "attack-action"
  THEN "attack-flow"
  ELSE IF data.has_schema /\ data.has_objects
       THEN "afb"
       ELSE "FormatError"

\* detectFormat that takes every bundle with an object list for a flow.
DetectFormatAnyBundle(data) ==
  IF data.type = "bundle" /\ data.has_objects
  THEN "attack-flow"
  ELSE IF data.has_schema /\ data.has_objects
       THEN "afb"
       ELSE "FormatError"

DetectFormat(data) ==
  IF data.type = "bundle" /\ data.has_objects
  THEN IF \/ \E i \in DOMAIN data.objects : data.objects[i].type = "attack-flow"
          \/ \E i \in DOMAIN data.objects : data.objects[i].type = "attack-action"
       THEN "attack-flow"
       ELSE "FormatError"
  ELSE IF data.has_schema /\ data.has_objects
       THEN "afb"
       ELSE "FormatError"

----------------------------------------------------------------------------
(* parseAttackFlow *)

\* this.objects after the loop: each id maps to the last object carrying it.
\* The table is a sequence of <<id, object>> pairs with distinct ids.
RECURSIVE TablePut(_, _, _)
TablePut(table, key, obj) ==
  IF table = <<>> THEN << <<key, obj>> >>
  ELSE IF Head(table)[1] = key THEN << <<key, obj>> >> \o Tail(table)
  ELSE <<Head(table)>> \o TablePut(Tail(table), key, obj)

TableHas(table, key) == \E i \in DOMAIN table : table[i][1] = key

TableGet(table, key) ==
  table[CHOOSE i \in DOMAIN table : table[i][1] = key][2]

RECURSIVE IndexAll(_, _)
IndexAll(objs, table) ==
  IF objs = <<>> THEN table
  ELSE IndexAll(Tail(objs), TablePut(table, Head(objs).id, Head(objs)))

\* this.attackFlow: the last attack-flow object, <<>> for null.
LastFlow(objs) ==
  LET flows == OfType(objs, "attack-flow")
  IN IF flows = <<>> THEN <<>> ELSE <<flows[Len(flows)]>>

ParseAttackFlow(data) ==
  [ NoParser EXCEPT
      !.format = "attack-flow",
      !.objects = IndexAll(data.objects, <<>>),
      !.attackFlow = LastFlow(data.objects),
      !.actions = OfType(data.objects, "attack-action"),
      !.relationships = OfType(data.objects, "relationship"),
      !.assets = OfType(data.objects, "attack-asset"),
      !.conditions = OfType(data.objects, "attack-condition"),
      !.operators = OfType(data.objects, "attack-operator") ]

----------------------------------------------------------------------------
(* parseAFB and getProperty *)

\* getProperty: the value of the first [key, value] pair with that key, or
\* null.  (A nested property list is flattened to an object by the code;
\* the properties read into actions carry scalar values.)
GetProperty(properties, key) ==
  IF \E i \in DOMAIN properties : properties[i][1] = key
  THEN properties[CHOOSE i \in DOMAIN properties :
                    /\ properties[i][1] = key
                    /\ \A j \in 1..(i-1) : properties[j][1] # key][2]
  ELSE Null

\* The flow record parseAFB builds from the first object tagged 'flow'.
AFBFlow(objs) ==
  LET flows == SelectSeq(objs, LAMBDA o : o.id = "flow")
  IN IF flows = <<>> THEN <<>>
     ELSE <<BlankObj>>

AFBAction(obj) ==
  [ BlankObj EXCEPT
      !.id = obj.instance,
      !.type = "attack-action",
      !.technique_id = GetProperty(obj.properties, "technique_id"),
      !.tactic_id = GetProperty(obj.properties, "tactic_id"),
      !.confidence = GetProperty(obj.properties, "confidence"),
      !.execution_start = GetProperty(obj.properties, "execution_start"),
      !.instance = obj.instance ]

AFBAsset(obj) ==
  [ BlankObj EXCEPT !.id = obj.instance, !.type = "attack-asset" ]

\* First pass: this.objects, keyed by instance, over actions and assets.
RECURSIVE AFBIndex(_, _)
AFBIndex(objs, table) ==
  IF objs = <<>> THEN table
  ELSE LET o == Head(objs)
       IN AFBIndex(Tail(objs),
            IF o.id = "action" THEN TablePut(table, o.instance, AFBAction(o))
            ELSE IF o.id = "asset" THEN TablePut(table, o.instance, AFBAsset(o))
            ELSE table)

\* Second pass: one relationship per connector with a truthy source and target.
AFBRelationship(obj) ==
  [ BlankObj EXCEPT !.source = obj.source, !.target = obj.target, !.type = obj.id ]

IsConnector(obj) ==
  /\ obj.id \in {"dynamic_line", "line"}
  /\ Truthy(obj.source) /\ Truthy(obj.target)

AFBActions(objs) ==
  LET sel == SelectSeq(objs, LAMBDA o : o.id = "action")
  IN [i \in DOMAIN sel |-> AFBAction(sel[i])]

AFBAssets(objs) ==
  LET sel == SelectSeq(objs, LAMBDA o : o.id = "asset")
  IN [i \in DOMAIN sel |-> AFBAsset(sel[i])]

AFBRelationships(objs) ==
  LET sel == SelectSeq(objs, IsConnector)
  IN [i \in DOMAIN sel |-> AFBRelationship(sel[i])]

ParseAFB(data) ==
  [ NoParser EXCEPT
      !.format = "afb",
      !.attackFlow = AFBFlow(data.objects),
      !.objects = AFBIndex(data.objects, <<>>),
      !.actions = AFBActions(data.objects),
      !.assets = AFBAssets(data.objects),
      !.relationships = AFBRelationships(data.objects) ]

----------------------------------------------------------------------------
(* buildGraph: nodes *)

\* The tactic id of the first tacticMap entry, in insertion order, whose name
\* equals tacticName ignoring case; fallback when there is none.
PhaseTacticId(tacticName, fallback) ==
  LET hits == {i \in DOMAIN tacticMap :
                 ToLowerCase(tacticMap[i][2]) = ToLowerCase(tacticName)}
  IN IF hits = {} THEN fallback
     ELSE tacticMap[CHOOSE i \in hits : \A j \in hits : i <= j][1]

HasPhases(action) == action.kill_chain_phases # <<>>

\* phaseName.split throws TypeError when the first phase has no phase_name.
NodeThrows(action) ==
  HasPhases(action) /\ ~action.kill_chain_phases[1].has_name

\* The tactic name taken from the tactic_id alone, the phases unread.
ResolveTacticNameFromIdOnly(action) ==
  IF TacticMapHas(action.tactic_id)
  THEN TacticMapGet(action.tactic_id)
  ELSE StrUnknown

\* let tacticName = this.tacticMap[action.tactic_id] || 'Unknown', replaced
\* by the title-cased first phase name when the action has phases.
ResolveTacticName(action) ==
  IF HasPhases(action)
  THEN TitleCase(action.kill_chain_phases[1].phase_name)
  ELSE IF TacticMapHas(action.tactic_id)
       THEN TacticMapGet(action.tactic_id)
       ELSE StrUnknown

ResolveTacticId(action) ==
  IF HasPhases(action)
  THEN PhaseTacticId(TitleCase(action.kill_chain_phases[1].phase_name),
                     action.tactic_id)
  ELSE action.tactic_id

\* The node record built for the action at 0-based position index.
MakeNode(action, index) ==
  [ id |-> IF Truthy(action.id) THEN action.id ELSE action.instance,
    technique_id |-> action.technique_id,
    tactic_id |-> ResolveTacticId(action),
    tactic_name |-> ResolveTacticName(action),
    confidence |-> IF Truthy(action.confidence) THEN action.confidence ELSE "certain",
    execution_start |-> action.execution_start,
    sequence |-> index,
    children |-> <<>>,
    kill_chain_phases |-> action.kill_chain_phases ]

BuildNodes(acts) == [i \in DOMAIN acts |-> MakeNode(acts[i], i - 1)]

\* nodeMap.get(id): the position in nodes of the node last set for id, 0 for
\* undefined.
NodeMapGet(nodes, id) ==
  IF \E i \in DOMAIN nodes : nodes[i].id = id
  THEN CHOOSE i \in DOMAIN nodes :
         /\ nodes[i].id = id
         /\ \A j \in DOMAIN nodes : nodes[j].id = id => j <= i
  ELSE 0

SeqContains(s, x) == \E i \in DOMAIN s : s[i] = x

----------------------------------------------------------------------------
(* buildGraph: edges.  The build state st carries the nodes (whose children *)
(* lists the code extends in place), the edge list, and whether the call    *)
(* stack overflowed.                                                        *)

\* The edge addition without the children.includes test.
ChainEdgeAlwaysPush(st, sourceId, targetId) ==
  LET s == NodeMapGet(st.nodes, sourceId)
      t == NodeMapGet(st.nodes, targetId)
  IN IF s # 0 /\ t # 0
     THEN [ st EXCEPT
              !.edges = Append(@, [source |-> sourceId, target |-> targetId]),
              !.nodes[s].children = Append(@, targetId) ]
     ELSE st

\* followEffectChain, action branch: push the edge and the child.
ChainEdge(st, sourceId, targetId) ==
  LET s == NodeMapGet(st.nodes, sourceId)
      t == NodeMapGet(st.nodes, targetId)
  IN IF s # 0 /\ t # 0
     THEN [ st EXCEPT
              !.edges = Append(@, [source |-> sourceId, target |-> targetId]),
              !.nodes[s].children =
                 IF SeqContains(@, targetId) THEN @ ELSE Append(@, targetId) ]
     ELSE st

RECURSIVE FollowEffectChain(_, _, _, _, _)
RECURSIVE FollowRefs(_, _, _, _, _)

\* followEffectChain that goes on through an action to the action's own effects.
FollowThroughActions(table, sourceId, effectNode, st, depth) ==
  IF st.overflow THEN st
  ELSE IF depth > MaxCallDepth THEN [st EXCEPT !.overflow = TRUE]
  ELSE IF effectNode.type = "attack-condition"
       THEN FollowRefs(table, sourceId, effectNode.on_false_refs,
              FollowRefs(table, sourceId, effectNode.on_true_refs, st, depth),
              depth)
  ELSE IF effectNode.type = "attack-operator"
       THEN FollowRefs(table, sourceId, effectNode.effect_refs, st, depth)
  ELSE IF effectNode.type = "attack-action"
       THEN FollowRefs(table, sourceId,
              IF effectNode.id = sourceId THEN <<>> ELSE effectNode.effect_refs,
              ChainEdge(st, sourceId, effectNode.id), depth)
  ELSE st

\* followEffectChain that follows only the true branch of a condition.
FollowTrueOnly(table, sourceId, effectNode, st, depth) ==
  IF st.overflow THEN st
  ELSE IF depth > MaxCallDepth THEN [st EXCEPT !.overflow = TRUE]
  ELSE IF effectNode.type = "attack-condition"
       THEN FollowRefs(table, sourceId, effectNode.on_true_refs, st, depth)
  ELSE IF effectNode.type = "attack-operator"
       THEN FollowRefs(table, sourceId, effectNode.effect_refs, st, depth)
  ELSE IF effectNode.type = "attack-action"
       THEN ChainEdge(st, sourceId, effectNode.id)
  ELSE st

\* followEffectChain(sourceId, effectNode, edges, nodeMap) at call depth
\* depth; table is this.objects.
FollowEffectChain(table, sourceId, effectNode, st, depth) ==
  IF st.overflow THEN st
  ELSE IF depth > MaxCallDepth THEN [st EXCEPT !.overflow = TRUE]
  ELSE IF effectNode.type = "attack-condition"
       THEN FollowRefs(table, sourceId, effectNode.on_false_refs,
              FollowRefs(table, sourceId, effectNode.on_true_refs, st, depth),
              depth)
  ELSE IF effectNode.type = "attack-operator"
       THEN FollowRefs(table, sourceId, effectNode.effect_refs, st, depth)
  ELSE IF effectNode.type = "attack-action"
       THEN ChainEdge(st, sourceId, effectNode.id)
  ELSE st

\* The reference loop leaving at the first reference that does not resolve.
FollowRefsStopAtMissing(table, sourceId, refs, st, depth) ==
  IF refs = <<>> \/ st.overflow THEN st
  ELSE IF TableHas(table, Head(refs))
       THEN FollowRefs(table, sourceId, Tail(refs),
              FollowEffectChain(table, sourceId, TableGet(table, Head(refs)),
                                st, depth + 1),
              depth)
       ELSE st

\* refs.forEach(ref => { const nextNode = this.objects[ref];
\*                       if (nextNode) this.followEffectChain(...) })
FollowRefs(table, sourceId, refs, st, depth) ==
  IF refs = <<>> \/ st.overflow THEN st
  ELSE FollowRefs(table, sourceId, Tail(refs),
         IF TableHas(table, Head(refs))
         THEN FollowEffectChain(table, sourceId, TableGet(table, Head(refs)),
                                st, depth + 1)
         ELSE st,
         depth)

\* The first loop of buildAttackFlowEdges, over the actions from position i.
RECURSIVE EffectEdges(_, _, _, _)
EffectEdges(table, acts, i, st) ==
  IF i > Len(acts) THEN st
  ELSE EffectEdges(table, acts, i + 1,
         FollowRefs(table, acts[i].id, acts[i].effect_refs, st, 0))

\* The relationship loop body testing the source only.
RelEdgeSourceOnly(st, rel) ==
  LET s == NodeMapGet(st.nodes, rel.source_ref)
  IN IF s # 0
     THEN [ st EXCEPT
              !.edges = Append(@, [source |-> rel.source_ref,
                                   target |-> rel.target_ref]),
              !.nodes[s].children =
                 IF SeqContains(@, rel.target_ref) THEN @
                 ELSE Append(@, rel.target_ref) ]
     ELSE st

\* buildAttackFlowEdges, relationship loop body.
RelEdge(st, rel) ==
  LET s == NodeMapGet(st.nodes, rel.source_ref)
      t == NodeMapGet(st.nodes, rel.target_ref)
  IN IF s # 0 /\ t # 0
     THEN [ st EXCEPT
              !.edges = Append(@, [source |-> st.nodes[s].id,
                                   target |-> st.nodes[t].id]),
              !.nodes[s].children =
                 IF SeqContains(@, st.nodes[t].id) THEN @
                 ELSE Append(@, st.nodes[t].id) ]
     ELSE st

RECURSIVE RelEdges(_, _)
RelEdges(rels, st) ==
  IF rels = <<>> THEN st ELSE RelEdges(Tail(rels), RelEdge(st, Head(rels)))

BuildAttackFlowEdges(p, st) ==
  LET afterEffects == EffectEdges(p.objects, p.actions, 1, st)
  IN IF afterEffects.overflow THEN afterEffects
     ELSE RelEdges(p.relationships, afterEffects)

\* The builder loop body testing the source only.
AFBEdgeSourceOnly(st, rel) ==
  LET s == NodeMapGet(st.nodes, rel.source)
  IN IF s # 0
     THEN [ st EXCEPT
              !.edges = Append(@, [source |-> rel.source, target |-> rel.target]),
              !.nodes[s].children =
                 IF SeqContains(@, rel.target) THEN @ ELSE Append(@, rel.target) ]
     ELSE st

\* buildAFBEdges, loop body.
AFBEdge(st, rel) ==
  LET s == NodeMapGet(st.nodes, rel.source)
      t == NodeMapGet(st.nodes, rel.target)
  IN IF s # 0 /\ t # 0
     THEN [ st EXCEPT
              !.edges = Append(@, [source |-> st.nodes[s].id,
                                   target |-> st.nodes[t].id]),
              !.nodes[s].children =
                 IF SeqContains(@, st.nodes[t].id) THEN @
                 ELSE Append(@, st.nodes[t].id) ]
     ELSE st

RECURSIVE BuildAFBEdges(_, _)
BuildAFBEdges(rels, st) ==
  IF rels = <<>> THEN st ELSE BuildAFBEdges(Tail(rels), AFBEdge(st, Head(rels)))

\* buildGraph: the build state at its end; status names the exception thrown,
\* "ok" when none.
BuildGraph(p) ==
  IF \E i \in DOMAIN p.actions : NodeThrows(p.actions[i])
  THEN [status |-> "TypeError", nodes |-> <<>>, edges |-> <<>>, overflow |-> FALSE]
  ELSE LET st0 == [status |-> "ok", nodes |-> BuildNodes(p.actions),
                   edges |-> <<>>, overflow |-> FALSE]
           st1 == IF p.format = "attack-flow" THEN BuildAttackFlowEdges(p, st0)
                  ELSE IF p.format = "afb" THEN BuildAFBEdges(p.relationships, st0)
                  ELSE st0
       IN IF st1.overflow THEN [st1 EXCEPT !.status = "RangeError"] ELSE st1

\* parse(): extraction by format, then buildGraph.
Parse(data, fmt) ==
  IF fmt = "attack-flow" THEN ParseAttackFlow(data) ELSE ParseAFB(data)

----------------------------------------------------------------------------
(* getActionSequence.  The traversal state st carries the visited set, the  *)
(* output (positions in graph.nodes, 0 for an undefined entry), whether the *)
(* call stack overflowed, and the deepest nesting of visit reached (a       *)
(* measure of the recursion, not a program value).  It also carries, for    *)
(* each id visit has entered, the start id of the top-level traversal and   *)
(* the loop ("declared", "inferred" or "remaining") that was running: a     *)
(* record of the traversal, not a program value either.                     *)

Max(a, b) == IF a >= b THEN a ELSE b

\* visit with the visited mark forgotten.
MarkVisitedNever(visited, nodeId) == visited

\* visited.add(nodeId), done on entry to visit.
MarkVisited(visited, nodeId) == visited \cup {nodeId}

RECURSIVE Visit(_, _, _, _)
RECURSIVE VisitAll(_, _, _, _)

\* visit adding the node to the output on entry, before its children.
VisitUnshiftOnEntry(nodes, nodeId, st, depth) ==
  IF st.overflow THEN st
  ELSE IF depth > MaxCallDepth THEN [st EXCEPT !.overflow = TRUE]
  ELSE IF nodeId \in st.visited
       THEN [st EXCEPT !.maxDepth = Max(@, depth)]
  ELSE LET n == NodeMapGet(nodes, nodeId)
           entered == [st EXCEPT !.visited = MarkVisited(@, nodeId),
                                 !.maxDepth = Max(@, depth),
                                 !.marks = @ \cup {<<nodeId, st.root, st.loop>>},
                                 !.sequence = <<n>> \o @]
       IN IF n # 0
          THEN VisitAll(nodes, nodes[n].children, entered, depth + 1)
          ELSE entered

\* visit with sequence.push in place of sequence.unshift.
VisitPushing(nodes, nodeId, st, depth) ==
  IF st.overflow THEN st
  ELSE IF depth > MaxCallDepth THEN [st EXCEPT !.overflow = TRUE]
  ELSE IF nodeId \in st.visited
       THEN [st EXCEPT !.maxDepth = Max(@, depth)]
  ELSE LET n == NodeMapGet(nodes, nodeId)
           entered == [st EXCEPT !.visited = MarkVisited(@, nodeId),
                                 !.maxDepth = Max(@, depth),
                                 !.marks = @ \cup {<<nodeId, st.root, st.loop>>}]
           after == IF n # 0
                    THEN VisitAll(nodes, nodes[n].children, entered, depth + 1)
                    ELSE entered
       IN IF after.overflow THEN after
          ELSE [after EXCEPT !.sequence = @ \o <<n>>]

\* visit(nodeId) at call depth depth.
Visit(nodes, nodeId, st, depth) ==
  IF st.overflow THEN st
  ELSE IF depth > MaxCallDepth THEN [st EXCEPT !.overflow = TRUE]
  ELSE IF nodeId \in st.visited
       THEN [st EXCEPT !.maxDepth = Max(@, depth)]
  ELSE LET n == NodeMapGet(nodes, nodeId)
           entered == [st EXCEPT !.visited = MarkVisited(@, nodeId),
                                 !.maxDepth = Max(@, depth),
                                 !.marks = @ \cup {<<nodeId, st.root, st.loop>>}]
           after == IF n # 0
                    THEN VisitAll(nodes, nodes[n].children, entered, depth + 1)
                    ELSE entered
       IN IF after.overflow THEN after
          ELSE [after EXCEPT !.sequence = <<n>> \o @]

\* ids.forEach(id => visit(id))
VisitAll(nodes, ids, st, depth) ==
  IF ids = <<>> \/ st.overflow THEN st
  ELSE VisitAll(nodes, Tail(ids), Visit(nodes, Head(ids), st, depth), depth)

\* starts.forEach(id => visit(id)): one top-level traversal per start id.
RECURSIVE VisitStarts(_, _, _, _)
VisitStarts(nodes, ids, st, loop) ==
  IF ids = <<>> \/ st.overflow THEN st
  ELSE VisitStarts(nodes, Tail(ids),
         Visit(nodes, Head(ids), [st EXCEPT !.root = Head(ids), !.loop = loop], 1),
         loop)

\* Start from the start_refs of the flow that resolve to an action.
DeclaredStarts(p) ==
  IF p.attackFlow = <<>> THEN <<>>
  ELSE SelectSeq(p.attackFlow[1].start_refs,
         LAMBDA r : /\ TableHas(p.objects, r)
                    /\ TableGet(p.objects, r).type = "attack-action")

\* The ids of the nodes no edge targets, in node order.
InferredStarts(g) ==
  LET incoming == {g.edges[i].target : i \in DOMAIN g.edges}
      starts == SelectSeq(g.nodes, LAMBDA n : n.id \notin incoming)
  IN [i \in DOMAIN starts |-> starts[i].id]

\* this.graph.nodes.forEach(node => { if (!visited.has(node.id)) visit(node.id) })
RECURSIVE VisitRemaining(_, _, _)

\* The last loop putting what each of its traversals yields at the end of
\* the output.
VisitRemainingAppending(nodes, i, st) ==
  IF i > Len(nodes) \/ st.overflow THEN st
  ELSE VisitRemaining(nodes, i + 1,
         IF nodes[i].id \in st.visited THEN st
         ELSE LET sub == Visit(nodes, nodes[i].id,
                               [st EXCEPT !.root = nodes[i].id, !.loop = "remaining",
                                          !.sequence = <<>>], 1)
              IN [sub EXCEPT !.sequence = st.sequence \o @])

VisitRemaining(nodes, i, st) ==
  IF i > Len(nodes) \/ st.overflow THEN st
  ELSE VisitRemaining(nodes, i + 1,
         IF nodes[i].id \in st.visited THEN st
         ELSE Visit(nodes, nodes[i].id,
                    [st EXCEPT !.root = nodes[i].id, !.loop = "remaining"], 1))

GetActionSequence(p) ==
  LET g == p.graph
      st0 == [visited |-> {}, sequence |-> <<>>, overflow |-> FALSE, maxDepth |-> 0,
              marks |-> {}, root |-> Undefined, loop |-> "none"]
      st1 == VisitStarts(g.nodes, DeclaredStarts(p), st0, "declared")
      st2 == IF p.format = "afb" \/ Len(st1.sequence) = 0
             THEN VisitStarts(g.nodes, InferredStarts(g), st1, "inferred")
             ELSE st1
      st3 == VisitRemaining(g.nodes, 1, st2)
      kept == SelectSeq(st3.sequence, LAMBDA n : n # 0)
  IN IF st3.overflow
     THEN [status |-> "RangeError", value |-> <<>>, maxDepth |-> st3.maxDepth,
           marks |-> st3.marks]
     ELSE [status |-> "ok",
           value |-> [i \in DOMAIN kept |-> g.nodes[kept[i]]],
           maxDepth |-> st3.maxDepth,
           marks |-> st3.marks]

----------------------------------------------------------------------------
(* The other queries.  A JavaScript Map is the sequence of its <<key,       *)
(* value>> entries in insertion order.                                      *)

MapHas(map, key) == \E i \in DOMAIN map : map[i][1] = key

MapGet(map, key) == map[CHOOSE i \in DOMAIN map : map[i][1] = key][2]

\* map.set(key, value): a new key goes last, a known key keeps its place.
MapSet(map, key, value) ==
  IF MapHas(map, key)
  THEN [i \in DOMAIN map |-> IF map[i][1] = key THEN <<key, value>> ELSE map[i]]
  ELSE Append(map, <<key, value>>)

\* The characters of the technique ids that occur in documents.
TechniqueChars(techniqueId) ==
  CASE techniqueId = "T1190" -> <<"T","1","1","9","0">>
    [] techniqueId = "T1059" -> <<"T","1","0","5","9">>
    [] techniqueId = "T0865" -> <<"T","0","8","6","5">>
    [] techniqueId = "T1486" -> <<"T","1","4","8","6">>
    [] techniqueId = "TX"    -> <<"T","X">>

\* s.charAt(n): the empty string past the end.
CharAt(s, n) == IF n + 1 \in DOMAIN s THEN s[n + 1] ELSE ""

\* inferTactic(techniqueId): the table lookup on techniqueId.charAt(1).
InferTactic(techniqueId) ==
  IF ~Truthy(techniqueId) THEN StrUnknown
  ELSE LET firstChar == CharAt(TechniqueChars(techniqueId), 1)
       IN CASE firstChar = "0" -> StrInitialAccess
            [] firstChar = "1" -> StrExecution
            [] firstChar = "2" -> StrPersistence
            [] firstChar = "3" -> StrPrivilegeEscalation
            [] firstChar = "4" -> StrDefenseEvasion
            [] firstChar = "5" -> StrCredentialAccess
            [] firstChar = "6" -> StrDiscovery
            [] firstChar = "7" -> StrLateralMovement
            [] firstChar = "8" -> StrCollection
            [] firstChar = "9" -> StrExfiltration
            [] OTHER -> StrUnknown

\* getTactics, loop body: a node without a technique id is passed over.
TacticsAdd(tactics, node) ==
  IF Truthy(node.technique_id)
  THEN LET tacticName == IF node.tactic_name # <<>> THEN node.tactic_name
                         ELSE InferTactic(node.technique_id)
           listed == IF MapHas(tactics, tacticName)
                     THEN MapGet(tactics, tacticName) ELSE <<>>
       IN MapSet(tactics, tacticName, Append(listed, node))
  ELSE tactics

RECURSIVE TacticsFrom(_, _)
TacticsFrom(nodes, tactics) ==
  IF nodes = <<>> THEN tactics
  ELSE TacticsFrom(Tail(nodes), TacticsAdd(tactics, Head(nodes)))

GetTactics(p) == TacticsFrom(p.graph.nodes, <<>>)

\* getTechniqueCounts, loop body.
CountsAdd(counts, node) ==
  IF Truthy(node.technique_id)
  THEN MapSet(counts, node.technique_id,
              (IF MapHas(counts, node.technique_id)
               THEN MapGet(counts, node.technique_id) ELSE 0) + 1)
  ELSE counts

RECURSIVE CountsFrom(_, _)
CountsFrom(nodes, counts) ==
  IF nodes = <<>> THEN counts
  ELSE CountsFrom(Tail(nodes), CountsAdd(counts, Head(nodes)))

GetTechniqueCounts(p) == CountsFrom(p.graph.nodes, <<>>)

\* getFlowMetadata: null (the empty sequence) without a flow object, else
\* the record, of which format and the two counts are kept.
GetFlowMetadata(p) ==
  IF p.attackFlow = <<>> THEN <<>>
  ELSE << [format |-> p.format,
           actionCount |-> Len(p.actions),
           relationshipCount |-> Len(p.relationships)] >>

\* The techniques set of getDetailedStats adding every node's technique_id.
TechniqueSetUnfiltered(nodes, techniques) ==
  techniques \cup {nodes[i].technique_id : i \in DOMAIN nodes}

RECURSIVE TechniqueSet(_, _)
\* if (node.technique_id) techniques.add(node.technique_id), over the nodes.
TechniqueSet(nodes, techniques) ==
  IF nodes = <<>> THEN techniques
  ELSE TechniqueSet(Tail(nodes),
         IF Truthy(Head(nodes).technique_id)
         THEN techniques \cup {Head(nodes).technique_id}
         ELSE techniques)

\* getDetailedStats: confidenceLevels is the set of <<level, count>> pairs;
\* hasTimestamps looks at execution_start (no document carries created).
GetDetailedStats(p) ==
  LET nodes == p.graph.nodes
      levels == {nodes[i].confidence : i \in DOMAIN nodes}
  IN [ totalActions |-> Len(p.actions),
       uniqueTechniques |-> Cardinality(TechniqueSet(nodes, {})),
       uniqueTactics |-> Cardinality({nodes[i].tactic_name :
                                        i \in {j \in DOMAIN nodes :
                                                 nodes[j].tactic_name # <<>>}}),
       confidenceLevels |->
         { <<c, Cardinality({i \in DOMAIN nodes : nodes[i].confidence = c})>> :
             c \in levels },
       hasTimestamps |-> \E i \in DOMAIN nodes : Truthy(nodes[i].execution_start),
       format |-> p.format ]

----------------------------------------------------------------------------
(* Documents the constructor is given. *)

RECURSIVE RefLists(_, _)
\* The lists of at most n references drawn from ids.
RefLists(ids, n) ==
  IF n = 0 THEN {<<>>}
  ELSE LET shorter == RefLists(ids, n - 1)
       IN shorter \cup {Append(s, x) : s \in shorter, x \in ids}

Act(id, refs) ==
  [BlankObj EXCEPT !.type = "attack-action", !.id = id, !.effect_refs = refs]

Cond(id, onTrue, onFalse) ==
  [BlankObj EXCEPT !.type = "attack-condition", !.id = id,
                   !.on_true_refs = onTrue, !.on_false_refs = onFalse]

Oper(id, refs) ==
  [BlankObj EXCEPT !.type = "attack-operator", !.id = id, !.effect_refs = refs]

Rel(s, t) ==
  [BlankObj EXCEPT !.type = "relationship", !.id = "r", !.source_ref = s,
                   !.target_ref = t]

Flow(starts) ==
  [BlankObj EXCEPT !.type = "attack-flow", !.id = "f", !.start_refs = starts]

Bundle(objs) ==
  [type |-> "bundle", has_objects |-> TRUE, has_schema |-> FALSE, objects |-> objs]

\* STIX bundles whose actions route through a condition c1 and an operator
\* o1; zz is an id no object carries.
ChainDocs ==
  { Bundle(<< Flow(<<>>), Act("a1", r1), Act("a2", r2), Act("a3", <<>>),
              Cond("c1", t, f), Oper("o1", e) >> \o rels) :
      r1 \in RefLists({"a3", "c1", "o1", "zz"}, MaxRefs),
      r2 \in {<<>>, <<"c1">>},
      t \in {<<>>, <<"a2">>, <<"c1">>, <<"o1">>, <<"zz", "a2", "a3">>},
      f \in {<<"a3">>, <<"o1">>},
      e \in {<<"a3">>, <<"c1">>, <<"a2", "a3">>},
      rels \in {<<>>, <<Rel("a1", "a3"), Rel("a1", "zz"), Rel("c1", "a2")>>} }

\* STIX bundles of three actions referring to each other directly, two of
\* which may carry the same id, with declared start references.
GraphDocs ==
  { Bundle(<< Flow(starts), Act(ids[1], e1), Act(ids[2], e2), Act(ids[3], e3) >>) :
      ids \in {<<"a1", "a2", "a3">>, <<"a1", "a2", "a1">>},
      e1 \in RefLists({"a1", "a2", "a3"}, MaxRefs),
      e2 \in RefLists({"a1", "a2", "a3"}, 1),
      e3 \in {<<>>, <<"a1">>},
      starts \in {<<>>, <<"a1">>, <<"a2">>, <<"a3", "a1">>, <<"zz">>} }

\* "initial-access"
PhaseInitialAccess ==
  <<"i","n","i","t","i","a","l","-","a","c","c","e","s","s">>

\* "execution"
PhaseExecution ==
  <<"e","x","e","c","u","t","i","o","n">>

\* "impact"
PhaseImpact ==
  <<"i","m","p","a","c","t">>

\* "command-and-control"
PhaseCommandAndControl ==
  <<"c","o","m","m","a","n","d","-","a","n","d","-","c","o","n","t","r","o","l">>

\* "weaponization" (a phase of another kill chain)
PhaseWeaponization ==
  <<"w","e","a","p","o","n","i","z","a","t","i","o","n">>

Phase(name) == [phase_name |-> name, has_name |-> TRUE]

\* A kill_chain_phases entry without a phase_name.
PhaseNoName == [phase_name |-> <<>>, has_name |-> FALSE]

\* STIX bundles a1 -> a2 -> a3 whose first action carries the tactic fields
\* in every combination.
TacticDocs ==
  { Bundle(<< Flow(<<"a1">>),
              [Act("a1", <<"a2">>) EXCEPT !.tactic_id = tid,
                                          !.kill_chain_phases = kcp,
                                          !.confidence = conf,
                                          !.technique_id = tech],
              [Act("a2", <<"a3">>) EXCEPT !.tactic_id = "TA0002",
                                          !.technique_id = "T1059"],
              Act("a3", <<>>) >>) :
      tid \in {Undefined, "TA0001", "TA0011", "TA0103", "TA9999"},
      kcp \in {<<>>, <<Phase(PhaseExecution)>>, <<Phase(PhaseCommandAndControl)>>,
               <<Phase(PhaseInitialAccess), Phase(PhaseImpact)>>,
               <<Phase(PhaseWeaponization)>>, <<PhaseNoName>>},
      conf \in {Undefined, "probable"},
      tech \in {Undefined, "T1190"} }

AfbObj(kind, inst, props) ==
  [BlankObj EXCEPT !.id = kind, !.instance = inst, !.properties = props]

Connector(kind, ends) ==
  [BlankObj EXCEPT !.id = kind, !.source = ends[1], !.target = ends[2]]

AfbDoc(objs) ==
  [type |-> Undefined, has_objects |-> TRUE, has_schema |-> TRUE, objects |-> objs]

\* The endpoint pairs drawn for a connector: actions i1 and i2, the asset
\* s1, the unknown id zz, and a missing endpoint.
ConnectorEnds ==
  { <<"i1", "i2">>, <<"i2", "i1">>, <<"i1", "i1">>, <<"i1", "s1">>,
    <<"s1", "i2">>, <<"zz", "i1">>, <<"i1", Undefined>>, <<Undefined, "i2">> }

\* Longest list of connectors drawn for a builder document.
MaxConnectors == 2

RECURSIVE ConnectorLists(_)
ConnectorLists(n) ==
  IF n = 0 THEN {<<>>}
  ELSE LET shorter == ConnectorLists(n - 1)
       IN shorter \cup
          { Append(s, Connector(IF Len(s) = 0 THEN "line" ELSE "dynamic_line", x)) :
              s \in shorter, x \in ConnectorEnds }

\* Builder documents: a flow, two actions (which may share an instance id),
\* an asset and connectors.
AfbDocs ==
  { AfbDoc(<< AfbObj("flow", Undefined, <<>>), AfbObj("action", "i1", props),
              AfbObj("action", inst2, <<>>), AfbObj("asset", "s1", <<>>) >> \o conns) :
      props \in { <<>>, << <<"confidence", "probable">> >>,
                  << <<"tactic_id", "TA0002">>, <<"technique_id", "T1059">> >>,
                  << <<"tactic_id", "TA0002">>, <<"tactic_id", "TA0003">> >> },
      inst2 \in {"i2", "i1"},
      conns \in ConnectorLists(MaxConnectors) }

\* Values that are not attack-flow documents, and the smallest that are.
FormatDocs ==
  { [type |-> ty, has_objects |-> ho, has_schema |-> hs, objects |-> objs] :
      ty \in {"bundle", Undefined},
      ho \in {TRUE},
      hs \in BOOLEAN,
      objs \in {<<>>, <<Rel("a1", "a2")>>, <<Act("a1", <<>>)>>, <<Flow(<<>>)>>} }
  \cup
  { [type |-> ty, has_objects |-> FALSE, has_schema |-> hs, objects |-> <<>>] :
      ty \in {"bundle", Undefined}, hs \in BOOLEAN }

\* The three actions of the flow a1 -> a2 -> a3: techniques T1190, T1059 and
\* T1486, no tactic_id, phases initial-access, execution and impact.
ScenarioActions ==
  << [Act("a1", <<"a2">>) EXCEPT !.technique_id = "T1190",
                                 !.kill_chain_phases = <<Phase(PhaseInitialAccess)>>],
     [Act("a2", <<"a3">>) EXCEPT !.technique_id = "T1059",
                                 !.kill_chain_phases = <<Phase(PhaseExecution)>>],
     [Act("a3", <<>>) EXCEPT !.technique_id = "T1486",
                             !.kill_chain_phases = <<Phase(PhaseImpact)>>] >>

\* That flow with start_refs [a1] and its actions in each of the six orders.
ScenarioDocs ==
  { Bundle(<< Flow(<<"a1">>), ScenarioActions[i], ScenarioActions[j],
              ScenarioActions[k] >>) :
      <<i, j, k>> \in { t \in (1..3) \X (1..3) \X (1..3) :
                          t[1] # t[2] /\ t[1] # t[3] /\ t[2] # t[3] } }

Docs ==
  ChainDocs \cup GraphDocs \cup TacticDocs \cup AfbDocs \cup FormatDocs
    \cup ScenarioDocs

\* Documents for the queries: STIX bundles a1 -> a2, with or without the
\* edge back a2 -> a1, and a3, whose actions carry or lack a technique id
\* and a tactic (the first phase of a1 may have the empty name), and the
\* builder documents without connectors.
QueryDocs ==
  { Bundle(<< Flow(starts),
              [Act("a1", <<"a2">>) EXCEPT !.tactic_id = "TA0001",
                                          !.kill_chain_phases = kcp,
                                          !.technique_id = tech1],
              [Act("a2", back) EXCEPT !.tactic_id = "TA0002",
                                      !.technique_id = tech2],
              [Act("a3", <<>>) EXCEPT !.tactic_id = "TA0001",
                                      !.technique_id = "T1059"] >>) :
      starts \in {<<>>, <<"a2">>},
      kcp \in {<<>>, <<Phase(<<>>)>>},
      tech1 \in {Undefined, "", "T1190", "T0865", "T1059"},
      tech2 \in {Undefined, "T1190", "TX"},
      back \in {<<>>, <<"a1">>} }
  \cup { d \in AfbDocs : Len(d.objects) = 4 }

\* The timeline view before any render: nothing drawn, no filter panel.
NoTimeline ==
  [view |-> "none", boxes |-> {}, checked |-> {}, activeTactics |-> {},
   cards |-> <<>>, listeners |-> "none", lastChange |-> <<>>]

\* The status element as the page loads: hidden, no timer pending.
NoStatus ==
  [visible |-> FALSE, kind |-> "none", shownBy |-> 0, timers |-> {}, shown |-> 0]

\* No getActionSequence call has returned yet.
NoSequence == [status |-> "none", value |-> <<>>, maxDepth |-> 0, marks |-> {}]

Init ==
  /\ rawData \in Docs
  /\ pc = "new"
  /\ error = "none"
  /\ parser = NoParser
  /\ lastCall = "none"
  /\ result = <<>>
  /\ warnings = <<>>
  /\ firstSequence = NoSequence
  /\ calls = <<>>
  /\ timeline = NoTimeline
  /\ status = NoStatus

\* The same, for the documents of the queries.
InitQueries ==
  /\ rawData \in QueryDocs
  /\ pc = "new"
  /\ error = "none"
  /\ parser = NoParser
  /\ lastCall = "none"
  /\ result = <<>>
  /\ warnings = <<>>
  /\ firstSequence = NoSequence
  /\ calls = <<>>
  /\ timeline = NoTimeline
  /\ status = NoStatus

----------------------------------------------------------------------------
(* Operations *)

\* The outcome of new AttackFlowParser(data): the exception thrown ("none"
\* when the constructor returns) and the fields of the object built.
NewParser(data) ==
  LET fmt == DetectFormat(data)
  IN IF fmt = "FormatError"
     THEN [pc |-> "error", error |-> "FormatError", parser |-> NoParser]
     ELSE LET p == Parse(data, fmt)
              g == BuildGraph(p)
          IN IF g.status # "ok"
             THEN [pc |-> "error", error |-> g.status, parser |-> NoParser]
             ELSE [pc |-> "ready", error |-> "none",
                   parser |-> [p EXCEPT !.graph = [nodes |-> g.nodes,
                                                   edges |-> g.edges]]]

WarnNoActions == "No attack-action objects found! This may not be an Attack Flow file."

\* The console.warn records the constructor writes.  parseAttackFlow warns
\* when it extracted no action; parseAFB writes none.  The warning
\* 'Missing effect node for source' of followEffectChain is behind
\* if (!effectNode), and each of the four calls of followEffectChain is
\* inside if (effectNode) / if (nextNode), so it is never written.
ConstructorWarnings(data) ==
  LET fmt == DetectFormat(data)
  IN IF fmt = "attack-flow" /\ Parse(data, fmt).actions = <<>>
     THEN <<WarnNoActions>>
     ELSE <<>>

\* The constructor emptying each effect_refs list of the document as it
\* resolves it.
ConstructConsumingRefs ==
  /\ pc = "new"
  /\ LET built == NewParser(rawData)
     IN /\ pc' = built.pc
        /\ error' = built.error
        /\ parser' = built.parser
  /\ warnings' = warnings \o ConstructorWarnings(rawData)
  /\ rawData' = [rawData EXCEPT !.objects =
                   [i \in DOMAIN @ |-> [@[i] EXCEPT !.effect_refs = <<>>]]]
  /\ UNCHANGED <<lastCall, result, firstSequence, calls,
                 timeline, status>>

\* new AttackFlowParser(data): detectFormat, parse, buildGraph.
Construct ==
  /\ pc = "new"
  /\ LET built == NewParser(rawData)
     IN /\ pc' = built.pc
        /\ error' = built.error
        /\ parser' = built.parser
  /\ warnings' = warnings \o ConstructorWarnings(rawData)
  /\ UNCHANGED <<rawData, lastCall, result, firstSequence, calls,
                 timeline, status>>

\* getActionSequence that sorts graph.nodes in place, leaving the parser's
\* node list in the order returned.
CallGetActionSequenceInPlace ==
  /\ pc = "ready" /\ Len(calls) < MaxCalls
  /\ lastCall' = "getActionSequence"
  /\ calls' = Append(calls, "getActionSequence")
  /\ result' = GetActionSequence(parser)
  /\ firstSequence' = IF firstSequence = NoSequence THEN result' ELSE firstSequence
  /\ parser' = IF result'.status = "ok"
               THEN [parser EXCEPT !.graph.nodes = result'.value]
               ELSE parser
  /\ UNCHANGED <<rawData, pc, error, warnings,
                 timeline, status>>

\* parser.getActionSequence()
CallGetActionSequence ==
  /\ pc = "ready" /\ Len(calls) < MaxCalls
  /\ lastCall' = "getActionSequence"
  /\ calls' = Append(calls, "getActionSequence")
  /\ result' = GetActionSequence(parser)
  /\ firstSequence' = IF firstSequence = NoSequence THEN result' ELSE firstSequence
  /\ UNCHANGED <<rawData, pc, error, parser, warnings,
                 timeline, status>>

\* getTactics writing the name it files a node under back onto the node.
CallGetTacticsWritingBack ==
  /\ pc = "ready" /\ Len(calls) < MaxCalls
  /\ lastCall' = "getTactics"
  /\ calls' = Append(calls, "getTactics")
  /\ result' = GetTactics(parser)
  /\ LET nodes == parser.graph.nodes
     IN parser' = [parser EXCEPT !.graph.nodes =
                     [i \in DOMAIN nodes |->
                        IF Truthy(nodes[i].technique_id) /\ nodes[i].tactic_name = <<>>
                        THEN [nodes[i] EXCEPT
                                !.tactic_name = InferTactic(nodes[i].technique_id)]
                        ELSE nodes[i]]]
  /\ UNCHANGED <<rawData, pc, error, warnings, firstSequence,
                 timeline, status>>

\* parser.getTactics()
CallGetTactics ==
  /\ pc = "ready" /\ Len(calls) < MaxCalls
  /\ lastCall' = "getTactics"
  /\ calls' = Append(calls, "getTactics")
  /\ result' = GetTactics(parser)
  /\ UNCHANGED <<rawData, pc, error, parser, warnings, firstSequence,
                 timeline, status>>

\* parser.getTechniqueCounts()
CallGetTechniqueCounts ==
  /\ pc = "ready" /\ Len(calls) < MaxCalls
  /\ lastCall' = "getTechniqueCounts"
  /\ calls' = Append(calls, "getTechniqueCounts")
  /\ result' = GetTechniqueCounts(parser)
  /\ UNCHANGED <<rawData, pc, error, parser, warnings, firstSequence,
                 timeline, status>>

\* parser.getFlowMetadata()
CallGetFlowMetadata ==
  /\ pc = "ready" /\ Len(calls) < MaxCalls
  /\ lastCall' = "getFlowMetadata"
  /\ calls' = Append(calls, "getFlowMetadata")
  /\ result' = GetFlowMetadata(parser)
  /\ UNCHANGED <<rawData, pc, error, parser, warnings, firstSequence,
                 timeline, status>>

\* parser.getDetailedStats()
CallGetDetailedStats ==
  /\ pc = "ready" /\ Len(calls) < MaxCalls
  /\ lastCall' = "getDetailedStats"
  /\ calls' = Append(calls, "getDetailedStats")
  /\ result' = GetDetailedStats(parser)
  /\ UNCHANGED <<rawData, pc, error, parser, warnings, firstSequence,
                 timeline, status>>

Next ==
  \/ Construct
  \/ CallGetActionSequence

Spec == Init /\ [][Next]_vars

\* The constructor and every query, in any order.
NextQueries ==
  \/ Construct
  \/ CallGetActionSequence
  \/ CallGetTactics
  \/ CallGetTechniqueCounts
  \/ CallGetFlowMetadata
  \/ CallGetDetailedStats

SpecQueries == InitQueries /\ [][NextQueries]_vars

----------------------------------------------------------------------------
(* The timeline view (TimelineVisualization).  timeline.boxes holds the     *)
(* data-tactic labels of the checkboxes of the filter panel, .checked the   *)
(* labels whose checkbox is checked, .cards the nodes drawn as cards in     *)
(* drawing order, .listeners whether the change listeners are attached      *)
(* ("pending" while the 100 ms timer runs), .lastChange the label of the    *)
(* checkbox whose change event was handled last.                            *)

\* The label of the "All Tactics" checkbox, data-tactic="ALL".
StrALL == <<"A", "L", "L">>

\* The execution_start values drawn for documents.
StartEarly == "2024-01-01T08:00:00Z"

StartLate == "2024-01-02T08:00:00Z"

\* new Date(execution_start), as days.
DateValue(start) == IF start = StartEarly THEN 1 ELSE 2

RECURSIVE InsertByStart(_, _)
\* a goes behind the entries of the sorted list that do not start later.
InsertByStart(sorted, a) ==
  IF sorted = <<>> THEN <<a>>
  ELSE IF DateValue(a.execution_start) < DateValue(Head(sorted).execution_start)
       THEN <<a>> \o sorted
       ELSE <<Head(sorted)>> \o InsertByStart(Tail(sorted), a)

RECURSIVE SortByStart(_)
\* [...actions].sort by execution_start (a stable sort).
SortByStart(actions) ==
  IF actions = <<>> THEN <<>>
  ELSE InsertByStart(SortByStart(SubSeq(actions, 1, Len(actions) - 1)),
                     actions[Len(actions)])

RECURSIVE GroupByTimestamp(_)
\* groupByTimestamp: one group per execution_start, in order of first
\* occurrence.
GroupByTimestamp(actions) ==
  IF actions = <<>> THEN <<>>
  ELSE LET stamp == Head(actions).execution_start
       IN <<SelectSeq(actions, LAMBDA a : a.execution_start = stamp)>>
            \o GroupByTimestamp(SelectSeq(actions,
                                          LAMBDA a : a.execution_start # stamp))

\* renderTimeBranch: the cards of the actions whose tactic is active.
RenderTimeBranch(group, activeTactics) ==
  SelectSeq(group, LAMBDA a : a.tactic_name \in activeTactics)

RECURSIVE DrawGroups(_, _)
\* timeGroups.forEach: a group with an action of an active tactic is drawn.
DrawGroups(groups, activeTactics) ==
  IF groups = <<>> THEN <<>>
  ELSE (IF \E i \in DOMAIN Head(groups) :
             Head(groups)[i].tactic_name \in activeTactics
        THEN RenderTimeBranch(Head(groups), activeTactics)
        ELSE <<>>)
       \o DrawGroups(Tail(groups), activeTactics)

\* renderHorizontalTimeline(actions): activeTactics is set anew to every
\* tactic of the actions, the filter panel is built unless one exists
\* (addTacticFilters), and the groups are drawn.
RenderHorizontalTimeline(tl, actions) ==
  LET sortedActions == SortByStart(actions)
      timeGroups == GroupByTimestamp(sortedActions)
      activeTactics == {sortedActions[i].tactic_name :
                          i \in {j \in DOMAIN sortedActions :
                                   sortedActions[j].tactic_name # <<>>}}
      labels == {StrALL} \cup (activeTactics \ {StrUnknown})
  IN [tl EXCEPT
        !.view = "timeline",
        !.activeTactics = activeTactics,
        !.boxes = IF tl.boxes # {} THEN @ ELSE labels,
        !.checked = IF tl.boxes # {} THEN @ ELSE labels,
        !.listeners = IF tl.boxes # {} THEN @ ELSE "pending",
        !.cards = DrawGroups(timeGroups, activeTactics)]

\* The nodes of the sequence that have an execution_start.
ActionsWithTime(p) ==
  SelectSeq(GetActionSequence(p).value, LAMBDA n : Truthy(n.execution_start))

\* render(parser): the container is emptied (panel and cards go), then the
\* timeline is drawn if some action has an execution_start.
RenderTimeline(tl, p) ==
  LET cleared == [tl EXCEPT !.boxes = {}, !.checked = {}, !.cards = <<>>,
                            !.listeners = "none", !.lastChange = <<>>]
  IN IF GetActionSequence(p).value = <<>> THEN [cleared EXCEPT !.view = "empty"]
     ELSE IF ActionsWithTime(p) = <<>> THEN [cleared EXCEPT !.view = "noTimeline"]
     ELSE RenderHorizontalTimeline(cleared, ActionsWithTime(p))

\* filterCards: the timeline container is removed and drawn again.
FilterCards(tl, p) ==
  IF ActionsWithTime(p) # <<>>
  THEN RenderHorizontalTimeline([tl EXCEPT !.cards = <<>>], ActionsWithTime(p))
  ELSE [tl EXCEPT !.cards = <<>>]

\* The change listener of a checkbox, run after the browser has switched
\* the checkbox (isChecked is its new state).
OnCheckboxChange(tl, label, isChecked) ==
  IF label = StrALL
  THEN [tl EXCEPT
          !.checked = IF isChecked THEN tl.boxes ELSE {},
          !.activeTactics = IF isChecked THEN @ \cup (tl.boxes \ {StrALL})
                            ELSE @ \ (tl.boxes \ {StrALL}),
          !.lastChange = label]
  ELSE LET marked == IF isChecked THEN tl.checked \cup {label}
                     ELSE tl.checked \ {label}
       IN [tl EXCEPT
             !.activeTactics = IF isChecked THEN @ \cup {label} ELSE @ \ {label},
             !.checked = IF (tl.boxes \ {StrALL}) \subseteq marked
                         THEN marked \cup {StrALL} ELSE marked \ {StrALL},
             !.lastChange = label]

----------------------------------------------------------------------------
(* The status message: one element shared by showError and showSuccess.     *)
(* status.shownBy numbers the show call whose message the element holds, a  *)
(* timer is <<the show call that set it, the seconds left>>.                *)

\* Most documents loaded in one session.
MaxLoads == 2

\* showError(message) / showSuccess(message): the element is filled and
\* shown, and a timer that hides it is set; no timer is ever cleared.
ShowMessage(st, kind, seconds) ==
  [st EXCEPT !.visible = TRUE, !.kind = kind, !.shownBy = st.shown + 1,
             !.shown = @ + 1,
             !.timers = @ \cup {<<st.shown + 1, seconds>>}]

ShowError(st) == ShowMessage(st, "error", 5)

ShowSuccess(st) == ShowMessage(st, "success", 3)

HideError(st) == [st EXCEPT !.visible = FALSE]

\* Documents loaded in the application: a STIX flow without actions, a value
\* that is no attack flow, and flows of three actions of which a1 and a2
\* start together, a3 may lack a tactic and a2 a start time.
AppDocs ==
  { Bundle(<<Flow(<<>>)>>),
    [type |-> Undefined, has_objects |-> FALSE, has_schema |-> FALSE,
     objects |-> <<>>] }
  \cup
  { Bundle(<< Flow(<<"a1">>),
              [Act("a1", <<"a2">>) EXCEPT !.tactic_id = "TA0001",
                                          !.execution_start = StartLate],
              [Act("a2", <<"a3">>) EXCEPT !.tactic_id = "TA0002",
                                          !.execution_start = start2],
              [Act("a3", <<>>) EXCEPT !.tactic_id = tid3,
                                      !.execution_start = StartEarly] >>) :
      start2 \in {StartLate, Undefined},
      tid3 \in {"TA0001", "TA0003", Undefined} }

\* The page before any file is chosen.
NoDocument ==
  [type |-> Undefined, has_objects |-> FALSE, has_schema |-> FALSE, objects |-> <<>>]

InitApp ==
  /\ rawData = NoDocument
  /\ pc = "new"
  /\ error = "none"
  /\ parser = NoParser
  /\ lastCall = "none"
  /\ result = <<>>
  /\ warnings = <<>>
  /\ firstSequence = NoSequence
  /\ calls = <<>>
  /\ timeline = NoTimeline
  /\ status = NoStatus

\* loadAttackFlow(data): hideError, the constructor, the renders, then
\* showSuccess and, with no action, showError; an exception (of the
\* constructor) leaves currentParser and the views alone and ends in
\* showError.  The renders of the table, matrix and treemap views and the
\* queries made on the way change nothing that is kept here.
LoadAttackFlow ==
  /\ status.shown < 2 * MaxLoads
  /\ \E data \in AppDocs :
       LET built == NewParser(data)
           hidden == HideError(status)
       IN /\ rawData' = data
          /\ warnings' = warnings \o ConstructorWarnings(data)
          /\ error' = built.error
          /\ IF built.pc = "ready"
             THEN /\ pc' = "ready"
                  /\ parser' = built.parser
                  /\ timeline' = RenderTimeline(timeline, built.parser)
                  /\ status' = IF Len(built.parser.actions) = 0
                               THEN ShowError(ShowSuccess(hidden))
                               ELSE ShowSuccess(hidden)
             ELSE /\ pc' = IF pc = "ready" THEN "ready" ELSE "error"
                  /\ parser' = parser
                  /\ timeline' = timeline
                  /\ status' = ShowError(hidden)
  /\ UNCHANGED <<lastCall, result, firstSequence, calls>>

\* The 100 ms timer of addTacticFilters fires: setupFilterListeners.
SetupFilterListeners ==
  /\ timeline.listeners = "pending"
  /\ timeline' = [timeline EXCEPT !.listeners = "attached"]
  /\ UNCHANGED <<rawData, pc, error, parser, lastCall, result, warnings,
                 firstSequence, calls, status>>

\* The user clicks a checkbox of the filter panel: the browser switches it
\* and, if the listeners are attached, the change listener runs and ends in
\* filterCards.
ChangeCheckbox ==
  /\ \E label \in timeline.boxes :
       LET isChecked == label \notin timeline.checked
           switched == [timeline EXCEPT
                          !.checked = IF isChecked THEN @ \cup {label}
                                      ELSE @ \ {label}]
       IN timeline' = IF timeline.listeners = "attached"
                      THEN FilterCards(OnCheckboxChange(switched, label, isChecked),
                                       parser)
                      ELSE switched
  /\ UNCHANGED <<rawData, pc, error, parser, lastCall, result, warnings,
                 firstSequence, calls, status>>

\* A second passes: no timer is due.
Tick ==
  /\ status.timers # {}
  /\ \A t \in status.timers : t[2] > 0
  /\ status' = [status EXCEPT !.timers = {<<t[1], t[2] - 1>> : t \in @}]
  /\ UNCHANGED <<rawData, pc, error, parser, lastCall, result, warnings,
                 firstSequence, calls, timeline>>

\* A due timer runs its callback: the element is hidden.
TimerFires ==
  /\ \E t \in status.timers :
       /\ t[2] = 0
       /\ status' = [status EXCEPT !.visible = FALSE, !.timers = @ \ {t}]
  /\ UNCHANGED <<rawData, pc, error, parser, lastCall, result, warnings,
                 firstSequence, calls, timeline>>

\* Loading documents and using the filter panel.
NextTimeline ==
  \/ LoadAttackFlow
  \/ SetupFilterListeners
  \/ ChangeCheckbox

SpecTimeline == InitApp /\ [][NextTimeline]_vars

\* Loading documents while time passes.
NextStatus ==
  \/ LoadAttackFlow
  \/ Tick
  \/ TimerFires

SpecStatus == InitApp /\ [][NextStatus]_vars

----------------------------------------------------------------------------
(* Vocabulary of the properties. *)

Range(s) == {s[i] : i \in DOMAIN s}

Nodes == parser.graph.nodes

Edges == parser.graph.edges

NodeIds == {Nodes[i].id : i \in DOMAIN Nodes}

EdgePairs == {<<Edges[i].source, Edges[i].target>> : i \in DOMAIN Edges}

IsStix == parser.format = "attack-flow"

IsAfb == parser.format = "afb"

\* The objects of the document with a given type tag, and their ids.
DocObjectsOfType(t) == {o \in Range(rawData.objects) : o.type = t}

DocActionIds == {o.id : o \in DocObjectsOfType("attack-action")}

DocRoutingObjects ==
  DocObjectsOfType("attack-condition") \cup DocObjectsOfType("attack-operator")

\* The ids an object of the document with this id refers to when it is a
\* condition (both branches) or an operator; none for any other object.
RoutingRefs(id) ==
  UNION { Range(o.on_true_refs) \cup Range(o.on_false_refs) :
            o \in {c \in DocObjectsOfType("attack-condition") : c.id = id} }
  \cup
  UNION { Range(o.effect_refs) :
            o \in {c \in DocObjectsOfType("attack-operator") : c.id = id} }

\* Every id reached from the ids of from by reference paths through
\* conditions and operators only.
RECURSIVE RoutingClosure(_)
RoutingClosure(from) ==
  LET next == from \cup UNION {RoutingRefs(x) : x \in from}
  IN IF next = from THEN from ELSE RoutingClosure(next)

\* No condition or operator of the document reaches itself.
RoutingAcyclic ==
  \A o \in DocRoutingObjects : o.id \notin RoutingClosure(RoutingRefs(o.id))

\* The effect references of the actions carrying id s.
EffectRefsOf(s) ==
  UNION {Range(o.effect_refs) : o \in {a \in DocObjectsOfType("attack-action") : a.id = s}}

----------------------------------------------------------------------------
(* Properties *)

\* C1: STIX edge resolution (buildAttackFlowEdges / followEffectChain)
\* terminates for every STIX document, also when condition/operator
\* references form a cycle or a self-reference: the recursion is bounded and
\* never exhausts the call stack.
C1_EdgeResolutionTerminates ==
  pc = "error" => error # "RangeError"

\* C2: getActionSequence returns a list in which every node of graph.nodes
\* appears exactly once and nothing else appears.
C2_SequenceHoldsEveryNodeOnce ==
  lastCall = "getActionSequence" =>
    /\ result.status = "ok"
    /\ Len(result.value) = Len(Nodes)
    /\ \A i \in DOMAIN Nodes :
         Cardinality({j \in DOMAIN result.value : result.value[j] = Nodes[i]}) = 1

\* C3: getActionSequence terminates on every Graph, cyclic ones and
\* self-loops included: the call returns normally and visit never nests
\* deeper than the number of distinct node ids plus one (the innermost call
\* being the one that finds its node already visited).
C3_SequenceTerminates ==
  lastCall = "getActionSequence" =>
    /\ result.status = "ok"
    /\ result.maxDepth <= Cardinality(NodeIds) + 1

\* A cyclic Graph (a self-loop or a longer cycle among its edges) has been
\* sequenced.
C3_Witness ==
  /\ lastCall = "getActionSequence"
  /\ result.status = "ok"
  /\ \E a, b \in NodeIds :
       /\ a # b
       /\ <<a, b>> \in EdgePairs /\ <<b, a>> \in EdgePairs
  /\ \E a \in NodeIds : <<a, a>> \in EdgePairs

\* C4: in every Graph produced by a successful parse (either format), each
\* edge's source and target are ids of nodes of graph.nodes and so is each
\* id of any children list; a reference to a missing endpoint yields no edge.
C4_EdgeEndpointsAreNodes ==
  pc = "ready" =>
    /\ \A i \in DOMAIN Edges :
         Edges[i].source \in NodeIds /\ Edges[i].target \in NodeIds
    /\ \A i \in DOMAIN Nodes : Range(Nodes[i].children) \subseteq NodeIds

\* A Graph with edges was built from a STIX document in which a relationship
\* and an effect reference name an id no object carries.
C4_Witness ==
  /\ pc = "ready" /\ IsStix
  /\ Edges # <<>>
  /\ \E r \in DocObjectsOfType("relationship") :
       r.source_ref \in NodeIds /\ r.target_ref \notin NodeIds
  /\ \E s \in DocActionIds : \E x \in EffectRefsOf(s) :
       \A o \in Range(rawData.objects) : o.id # x

\* C5: for every STIX document the parser accepts, with N attack-action
\* objects, graph.nodes has exactly N nodes, the i-th node's id is the id of
\* the i-th attack-action object, and no two nodes have the same id.
C5_OneNodePerActionUniqueIds ==
  (pc = "ready" /\ IsStix) =>
    LET acts == OfType(rawData.objects, "attack-action")
    IN /\ Len(Nodes) = Len(acts)
       /\ \A i \in DOMAIN acts : Nodes[i].id = acts[i].id
       /\ \A i, j \in DOMAIN Nodes : Nodes[i].id = Nodes[j].id => i = j

\* The direct edges the references of the document call for: S -> T when T
\* is an action reached from an effect reference of S through conditions and
\* operators only, or when a relationship record joins the actions S and T.
ExpectedStixEdges ==
  { <<s, t>> \in DocActionIds \X DocActionIds :
      t \in RoutingClosure(EffectRefsOf(s)) }
  \cup
  { <<r.source_ref, r.target_ref>> :
      r \in { x \in DocObjectsOfType("relationship") :
                x.source_ref \in DocActionIds /\ x.target_ref \in DocActionIds } }

\* C6: for a STIX document whose routing chains are acyclic, the Graph has a
\* direct edge S -> T exactly when S and T are actions and either T is
\* reached from an effect reference of S by a path whose intermediate objects
\* are all conditions (both branches) or operators, stopping at the first
\* action, or a relationship record has source_ref S and target_ref T.
C6_EdgesAreResolvedChains ==
  (pc # "new" /\ DetectFormat(rawData) = "attack-flow" /\ RoutingAcyclic
     /\ error # "TypeError") =>
    /\ pc = "ready"
    /\ EdgePairs = ExpectedStixEdges

\* A Graph built from an acyclic document in which one action reaches
\* another only through a condition followed by an operator, and in which an
\* action reached through a routing node has effect references of its own.
C6_Witness ==
  /\ pc = "ready" /\ IsStix /\ RoutingAcyclic
  /\ \E s \in DocActionIds, t \in DocActionIds :
       /\ <<s, t>> \in EdgePairs
       /\ t \notin EffectRefsOf(s)
       /\ \E c \in DocObjectsOfType("attack-condition") :
            /\ c.id \in EffectRefsOf(s)
            /\ t \notin Range(c.on_true_refs) \cup Range(c.on_false_refs)
  /\ \E s \in DocActionIds, t \in DocActionIds :
       /\ <<s, t>> \in EdgePairs
       /\ t \notin EffectRefsOf(s)
       /\ EffectRefsOf(t) # {}

\* C7: if action S has an effect reference to a condition whose on_true_refs
\* points to action A and whose on_false_refs points to action B, the Graph
\* has the direct edges S -> A and S -> B, and the id of a condition occurs
\* nowhere in it: not as a node, an edge endpoint or a child.
C7_ConditionCollapses ==
  (pc = "ready" /\ IsStix) =>
    \A c \in DocObjectsOfType("attack-condition") :
      /\ \A s \in DocActionIds :
           c.id \in EffectRefsOf(s) =>
             /\ \A a \in Range(c.on_true_refs) \cap DocActionIds : <<s, a>> \in EdgePairs
             /\ \A b \in Range(c.on_false_refs) \cap DocActionIds : <<s, b>> \in EdgePairs
      /\ c.id \notin NodeIds
      /\ \A i \in DOMAIN Edges : c.id \notin {Edges[i].source, Edges[i].target}
      /\ \A i \in DOMAIN Nodes : c.id \notin Range(Nodes[i].children)

\* A Graph built from a document in which an action refers to a condition
\* with on_true_refs [A] and on_false_refs [B], A and B different actions.
C7_Witness ==
  /\ pc = "ready" /\ IsStix
  /\ \E c \in DocObjectsOfType("attack-condition") :
     \E s, a, b \in DocActionIds :
       /\ c.id \in EffectRefsOf(s)
       /\ c.on_true_refs = <<a>> /\ c.on_false_refs = <<b>> /\ a # b
       /\ <<s, a>> \in EdgePairs /\ <<s, b>> \in EdgePairs

\* The instance ids of the actions of a builder document.
DocActionInstances ==
  {o.instance : o \in {x \in Range(rawData.objects) : x.id = "action"}}

\* The (source, target) pairs of the line and dynamic_line connectors of the
\* document that join two action instances, in document order.
ExpectedAfbEdges ==
  LET joined == SelectSeq(rawData.objects,
                  LAMBDA o : /\ o.id \in {"line", "dynamic_line"}
                             /\ o.source \in DocActionInstances
                             /\ o.target \in DocActionInstances)
  IN [i \in DOMAIN joined |-> [source |-> joined[i].source, target |-> joined[i].target]]

\* C8: for every builder-format document, each line or dynamic_line
\* connector whose source and target are both instance ids of extracted
\* actions produces exactly one edge (source, target), a connector with a
\* missing, unknown or non-action endpoint produces none, and graph.edges
\* holds nothing else.
C8_OneEdgePerResolvedConnector ==
  (pc # "new" /\ DetectFormat(rawData) = "afb") =>
    /\ pc = "ready"
    /\ Edges = ExpectedAfbEdges

\* A Graph built from a builder document with a connector between two
\* actions, one ending at the asset, and one with an endpoint missing.
C8_Witness ==
  /\ pc = "ready" /\ IsAfb
  /\ Edges # <<>>
  /\ \E o \in Range(rawData.objects) :
       o.id = "dynamic_line" /\ o.source = "i1" /\ o.target = "s1"
  /\ \E o \in Range(rawData.objects) :
       o.id = "line" /\ o.source \in DocActionInstances /\ o.target \in DocActionInstances

\* C9: tactic resolution follows the stated priority: an explicit tactic_id
\* that is a key of the tactic-code table gives the table's name for it, also
\* when the action carries kill_chain_phases; the first kill-chain phase name
\* is used only when there is no known explicit tactic id; the name is
\* "Unknown" only when neither applies.
C9_TacticPriority ==
  pc = "ready" =>
    \A i \in DOMAIN Nodes :
      LET action == parser.actions[i]
      IN IF TacticMapHas(action.tactic_id)
         THEN Nodes[i].tactic_name = TacticMapGet(action.tactic_id)
         ELSE IF HasPhases(action)
              THEN Nodes[i].tactic_name = TitleCase(action.kill_chain_phases[1].phase_name)
              ELSE Nodes[i].tactic_name = StrUnknown

\* The names of the 14 Enterprise tactics.
EnterpriseTacticNames == {tacticMap[i][2] : i \in 1..14}

\* C10: in every Graph, every node's tactic_name is one of the 14 fixed
\* Enterprise tactic names (exact spelling) or "Unknown".
C10_TacticNameIsEnterpriseOrUnknown ==
  pc = "ready" =>
    \A i \in DOMAIN Nodes :
      Nodes[i].tactic_name \in EnterpriseTacticNames \cup {StrUnknown}

\* The document has type "bundle" and an object list holding at least one
\* attack-flow or attack-action object.
DocIsStix ==
  /\ rawData.type = "bundle" /\ rawData.has_objects
  /\ \E o \in Range(rawData.objects) : o.type \in {"attack-flow", "attack-action"}

\* The document is not bundle-shaped and has a schema marker and an object
\* list.
DocIsAfb ==
  /\ ~(rawData.type = "bundle" /\ rawData.has_objects)
  /\ rawData.has_schema /\ rawData.has_objects

\* C11: detectFormat classifies every input into exactly one outcome: STIX
\* iff the value has type "bundle" and an object list with at least one
\* attack-flow or attack-action object; builder iff it is not bundle-shaped
\* and has a schema marker and an object list; a format error in every other
\* case, a bundle-shaped value without either marker type included.
C11_FormatClassification ==
  pc # "new" =>
    /\ (error = "FormatError") <=> (~DocIsStix /\ ~DocIsAfb)
    /\ ~(DocIsStix /\ DocIsAfb)
    /\ pc = "ready" =>
         /\ (parser.format = "attack-flow") <=> DocIsStix
         /\ (parser.format = "afb") <=> DocIsAfb
    /\ error \in {"TypeError", "RangeError"} => DocIsStix

\* The constructor rejected a bundle that has an object list with objects
\* in it and a schema marker, but neither marker type.
C11_Witness ==
  /\ pc = "error" /\ error = "FormatError"
  /\ rawData.type = "bundle" /\ rawData.has_objects /\ rawData.has_schema
  /\ rawData.objects # <<>>

\* C12: a format error is fatal and leaves nothing behind: for a bundle with
\* an empty object list, and for every input format detection rejects, the
\* constructor raises the error before any extraction or graph building, so
\* no parser fields are filled, no Graph exists and no query is answered.
C12_FormatErrorLeavesNothing ==
  pc # "new" =>
    /\ (rawData.type = "bundle" /\ rawData.has_objects /\ rawData.objects = <<>>)
         => (pc = "error" /\ error = "FormatError")
    /\ (~DocIsStix /\ ~DocIsAfb) => (pc = "error" /\ error = "FormatError")
    /\ error = "FormatError" =>
         /\ parser = NoParser
         /\ lastCall = "none" /\ result = <<>>

\* The constructor was given a bundle with objects: [] and threw.
C12_Witness ==
  /\ pc = "error" /\ error = "FormatError"
  /\ rawData.type = "bundle" /\ rawData.has_objects /\ rawData.objects = <<>>
  /\ parser.graph.nodes = <<>>

\* The ids of the object table of a STIX document, and of a builder document
\* (the instance ids of its actions and assets).
StixTableIds(data) == {data.objects[i].id : i \in DOMAIN data.objects}

AfbTableIds(data) ==
  {data.objects[i].instance :
     i \in {j \in DOMAIN data.objects : data.objects[j].id \in {"action", "asset"}}}

\* The document without its references to ids absent from the object table:
\* such ids are taken out of every effect_refs, on_true_refs and
\* on_false_refs list, and a relationship or connector with such an endpoint
\* is taken out whole.
WithoutAbsentRefs(data) ==
  IF ~(data.type = "bundle" /\ data.has_objects) /\ data.has_schema /\ data.has_objects
  THEN [data EXCEPT !.objects =
          SelectSeq(data.objects,
            LAMBDA o : o.id \in {"line", "dynamic_line"} =>
                         /\ o.source \in AfbTableIds(data)
                         /\ o.target \in AfbTableIds(data))]
  ELSE LET ids == StixTableIds(data)
           kept == SelectSeq(data.objects,
                     LAMBDA o : o.type = "relationship" =>
                                  /\ o.source_ref \in ids
                                  /\ o.target_ref \in ids)
       IN [data EXCEPT !.objects =
             [i \in DOMAIN kept |->
                [kept[i] EXCEPT
                   !.effect_refs = SelectSeq(@, LAMBDA r : r \in ids),
                   !.on_true_refs = SelectSeq(@, LAMBDA r : r \in ids),
                   !.on_false_refs = SelectSeq(@, LAMBDA r : r \in ids)]]]

HasAbsentRef == WithoutAbsentRefs(rawData) # rawData

\* C13: a reference to an id absent from the object table (in effect_refs,
\* on_true_refs, on_false_refs, a relationship's source_ref/target_ref, or a
\* builder connector's source/target) drops only that one edge: it raises no
\* error, and the Graph is the one the document yields without the
\* reference, so every edge that does resolve is present.
C13_AbsentRefDropsOneEdge ==
  pc # "new" =>
    LET clean == NewParser(WithoutAbsentRefs(rawData))
    IN /\ pc = clean.pc /\ error = clean.error
       /\ parser.graph = clean.parser.graph
       /\ (HasAbsentRef /\ (DocIsStix \/ DocIsAfb) /\ RoutingAcyclic
             /\ \A o \in DocObjectsOfType("attack-action") : ~NodeThrows(o))
            => pc = "ready"

\* A Graph with an edge from an action whose effect_refs names an absent id
\* first and a resolving id after it.
C13_Witness ==
  /\ pc = "ready" /\ IsStix /\ HasAbsentRef
  /\ \E a \in DocObjectsOfType("attack-action") :
       /\ Len(a.effect_refs) >= 2
       /\ a.effect_refs[1] \notin StixTableIds(rawData)
       /\ \E i \in DOMAIN Edges : Edges[i].source = a.id

\* C14: every reference dropped because its id is absent from the object
\* table leaves a warning record about it: whenever the constructor has run
\* on a document holding such a reference, a warning other than the
\* no-actions notice has been written.
C14_AbsentRefIsWarned ==
  (pc # "new" /\ (DocIsStix \/ DocIsAfb) /\ HasAbsentRef) =>
    \E i \in DOMAIN warnings : warnings[i] # WarnNoActions

\* The node built from every extracted action carries the defaults for the
\* optional fields the action lacks.
NodesCarryDefaults ==
  \A i \in DOMAIN parser.actions :
    LET action == parser.actions[i]
        node == Nodes[i]
    IN /\ (~Truthy(action.tactic_id) /\ action.kill_chain_phases = <<>>)
            => node.tactic_name = StrUnknown
       /\ ~Truthy(action.confidence) => node.confidence = "certain"
       /\ action.execution_start = Undefined => node.execution_start = Undefined
       /\ action.technique_id = Undefined => node.technique_id = Undefined

\* C15: an optional field absent from an action, or filled in part (a
\* kill_chain_phases entry without phase_name), never makes the constructor
\* throw, and the node carries the default: tactic_name "Unknown",
\* confidence "certain", execution_start and technique_id absent.
C15_AbsentOptionalsNeverFail ==
  pc # "new" =>
    /\ error # "TypeError"
    /\ pc = "ready" => NodesCarryDefaults

RECURSIVE FirstOccurrences(_)
\* The sequence s without the repetitions of an element already met.
FirstOccurrences(s) ==
  IF s = <<>> THEN <<>>
  ELSE <<Head(s)>> \o FirstOccurrences(SelectSeq(Tail(s), LAMBDA x : x # Head(s)))

\* The targets of the edges added for source id, in the order of addition.
TargetsAdded(id) ==
  LET from == SelectSeq(Edges, LAMBDA e : e.source = id)
  IN [i \in DOMAIN from |-> from[i].target]

\* C16: whatever edges were added during resolution, no node's children
\* list holds a target id twice, and the children of the node an id
\* resolves to are the targets added for it in the order each was first
\* added.
C16_ChildrenAreOrderedSets ==
  pc = "ready" =>
    \A i \in DOMAIN Nodes :
      /\ \A j, k \in DOMAIN Nodes[i].children :
           Nodes[i].children[j] = Nodes[i].children[k] => j = k
      /\ i = NodeMapGet(Nodes, Nodes[i].id)
           => Nodes[i].children = FirstOccurrences(TargetsAdded(Nodes[i].id))

\* A node with two children for which some target was added more than once.
C16_Witness ==
  /\ pc = "ready"
  /\ \E i \in DOMAIN Nodes :
       /\ Len(Nodes[i].children) >= 2
       /\ Len(TargetsAdded(Nodes[i].id)) > Len(Nodes[i].children)

\* C17: graph.edges is a set: no two of its entries have the same
\* (source, target) pair, however often the pair is derived.
C17_EdgesAreASet ==
  pc = "ready" =>
    \A i, j \in DOMAIN Edges :
      (Edges[i].source = Edges[j].source /\ Edges[i].target = Edges[j].target)
        => i = j

\* Each tactic's list follows the order of graph.nodes and repeats no node.
TacticListsOrdered ==
  \A e \in DOMAIN result :
    \A j, k \in DOMAIN result[e][2] :
      j < k => result[e][2][j].sequence < result[e][2][k].sequence

\* C18: getTactics lists every node that has a known tactic_name under that
\* name, with or without a technique_id, each tactic's nodes in the order of
\* graph.nodes, and no node twice under one tactic.
C18_TacticsHoldEveryNamedNode ==
  (pc = "ready" /\ lastCall = "getTactics") =>
    /\ \A i \in DOMAIN Nodes :
         Nodes[i].tactic_name \notin {<<>>, StrUnknown} =>
           /\ MapHas(result, Nodes[i].tactic_name)
           /\ \E k \in DOMAIN MapGet(result, Nodes[i].tactic_name) :
                MapGet(result, Nodes[i].tactic_name)[k] = Nodes[i]
    /\ TacticListsOrdered

\* C19: getDetailedStats().uniqueTechniques is the number of distinct
\* technique_id values of the nodes that have one: an absent, null or empty
\* technique_id adds nothing, a repeated one counts once.
C19_UniqueTechniquesCountsDistinct ==
  (pc = "ready" /\ lastCall = "getDetailedStats") =>
    result.uniqueTechniques =
      Cardinality({Nodes[i].technique_id : i \in DOMAIN Nodes}
                    \ {Undefined, Null, ""})

\* Stats of a Graph of three nodes, one lacking a technique id and two sharing
\* one.
C19_Witness ==
  /\ pc = "ready" /\ lastCall = "getDetailedStats"
  /\ \E i \in DOMAIN Nodes : Nodes[i].technique_id \in {Undefined, Null, ""}
  /\ \E i, j \in DOMAIN Nodes :
       /\ i # j
       /\ Nodes[i].technique_id = Nodes[j].technique_id
       /\ Nodes[i].technique_id = "T1059"
  /\ result.uniqueTechniques = 1

\* C20: every getActionSequence call on a parser returns what the first one
\* returned, the same nodes in the same order, whatever queries were called
\* in between, also on a Graph with a cycle.
C20_SequenceIsRepeatable ==
  (pc = "ready" /\ lastCall = "getActionSequence") =>
    /\ result = firstSequence
    /\ result = GetActionSequence(NewParser(rawData).parser)

\* A second getActionSequence call after another query, on a Graph with the
\* cycle a1 -> a2 -> a1.
C20_Witness ==
  /\ pc = "ready" /\ lastCall = "getActionSequence"
  /\ Len(calls) = 3
  /\ calls[1] = "getActionSequence" /\ calls[2] = "getTactics"
  /\ <<"a1", "a2">> \in EdgePairs /\ <<"a2", "a1">> \in EdgePairs
  /\ result.status = "ok" /\ Len(result.value) = 3

\* The tactic_name of the node that id resolves to.
TacticNameOf(id) == Nodes[NodeMapGet(Nodes, id)].tactic_name

\* C21: for the flow a1 -> a2 -> a3 with start_refs [a1], no tactic_id and
\* the phases initial-access, execution and impact, the nodes are named
\* "Initial Access", "Execution" and "Impact" and getActionSequence returns
\* [a1, a2, a3], in whatever order the bundle lists the three actions.
C21_ScenarioEndToEnd ==
  (rawData \in ScenarioDocs /\ pc # "new") =>
    /\ pc = "ready"
    /\ TacticNameOf("a1") = StrInitialAccess
    /\ TacticNameOf("a2") = StrExecution
    /\ TacticNameOf("a3") = StrImpact
    /\ lastCall = "getActionSequence" =>
         /\ result.status = "ok"
         /\ [i \in DOMAIN result.value |-> result.value[i].id] = <<"a1", "a2", "a3">>

\* The flow listed as a3, a2, a1 has been sequenced.
C21_Witness ==
  /\ rawData \in ScenarioDocs /\ lastCall = "getActionSequence"
  /\ rawData.objects[2].id = "a3" /\ rawData.objects[4].id = "a1"
  /\ Len(result.value) = 3
  /\ parser.graph.nodes[1].id = "a3"

\* C22: the constructor (detect, extract, resolve) and the queries leave
\* the input document as it was: no step changes any object or list of
\* rawData.
C22_InputIsNeverMutated == [][rawData' = rawData]_vars

\* A STIX document whose effect_refs were resolved into edges, and still
\* carries them.
C22_Witness ==
  /\ pc = "ready" /\ IsStix /\ Edges # <<>>
  /\ \E a \in DocObjectsOfType("attack-action") :
       /\ a.effect_refs # <<>>
       /\ \E i \in DOMAIN Edges : Edges[i].source = a.id

\* C23: once constructed the Graph never changes: no call of
\* getActionSequence, getTactics (with inferTactic), getTechniqueCounts,
\* getFlowMetadata or getDetailedStats changes graph.nodes (order, fields,
\* children) or graph.edges.
C23_GraphIsImmutable ==
  [][pc = "ready" => parser'.graph = parser.graph]_vars

\* getTactics has filed a node without a tactic_name under an inferred name
\* and another query followed.
C23_Witness ==
  /\ pc = "ready" /\ Len(calls) >= 2
  /\ calls[1] = "getTactics" /\ calls[2] = "getDetailedStats"
  /\ \E i \in DOMAIN Nodes :
       Nodes[i].tactic_name = <<>> /\ Truthy(Nodes[i].technique_id)
  /\ Edges # <<>>

\* The place of the node with this id in the list getActionSequence returned.
SeqPos(id) == CHOOSE j \in DOMAIN result.value : result.value[j].id = id

Sequenced == pc = "ready" /\ lastCall = "getActionSequence" /\ result.status = "ok"

\* C24 as stated: every node first visited by the last loop (not from a
\* declared or an inferred start) comes after all nodes visited from the
\* start points.
C24_RemainingNodesComeLast ==
  Sequenced =>
    \A m, s \in result.marks :
      (m[3] = "remaining" /\ s[3] # "remaining") => SeqPos(m[1]) > SeqPos(s[1])

\* C24, amended: every node first visited by the last loop comes before all
\* nodes visited from the start points (unshift puts each later traversal in
\* front of the earlier ones).
C24_RemainingNodesComeFirst ==
  Sequenced =>
    \A m, s \in result.marks :
      (m[3] = "remaining" /\ s[3] # "remaining") => SeqPos(m[1]) < SeqPos(s[1])

\* A sequence with nodes from a declared start and nodes left to the last
\* loop.
C24_Witness ==
  /\ Sequenced
  /\ \E m, s \in result.marks : m[3] = "remaining" /\ s[3] = "declared"

\* C25: the start node of each top-level traversal comes before every node
\* first visited during that traversal, on cyclic graphs too; with one
\* declared start from which every node is reached, it is the first element.
C25_StartPrecedesItsTraversal ==
  Sequenced =>
    /\ \A m \in result.marks : SeqPos(m[2]) <= SeqPos(m[1])
    /\ \A s \in NodeIds :
         (\A m \in result.marks : m[2] = s /\ m[3] = "declared")
           => result.value[1].id = s

\* A traversal from a declared start on the cycle start -> other -> start.
C25_Witness ==
  /\ Sequenced
  /\ \E m \in result.marks :
       /\ m[3] = "declared" /\ m[1] # m[2]
       /\ <<m[2], m[1]>> \in EdgePairs /\ <<m[1], m[2]>> \in EdgePairs

Successors(id) == {t \in NodeIds : <<id, t>> \in EdgePairs}

RECURSIVE Descendants(_)
\* The ids reached from the ids of S along edges of the Graph, S included.
Descendants(S) ==
  LET next == S \cup UNION {Successors(s) : s \in S}
  IN IF next = S THEN S ELSE Descendants(next)

GraphAcyclic == \A id \in NodeIds : id \notin Descendants(Successors(id))

\* C26: on an acyclic Graph the output is a topological order: the source
\* of every edge comes before its target.
C26_AcyclicOrderIsTopological ==
  (pc = "ready" /\ lastCall = "getActionSequence" /\ GraphAcyclic) =>
    /\ result.status = "ok"
    /\ \A e \in EdgePairs : SeqPos(e[1]) < SeqPos(e[2])

\* An acyclic Graph sequenced from a declared start that has a predecessor,
\* which the last loop picks up.
C26_Witness ==
  /\ Sequenced /\ GraphAcyclic
  /\ \E m, s \in result.marks :
       /\ m[3] = "remaining" /\ s[3] = "declared"
       /\ <<m[1], s[1]>> \in EdgePairs
  /\ Cardinality(EdgePairs) >= 2

\* C27: children lists and the edge list describe one relation: for every
\* node, target t is in its children list exactly when graph.edges has an
\* entry from the node's id to t.
C27_ChildrenMatchEdges ==
  pc = "ready" =>
    \A i \in DOMAIN Nodes :
      \A t \in NodeIds :
        SeqContains(Nodes[i].children, t) <=> <<Nodes[i].id, t>> \in EdgePairs

\* C28: whenever a node's tactic_id is a key of the tactic-code table, its
\* tactic_name equals, letter case ignored, the table's name for that
\* tactic_id.
C28_TacticIdAndNameAgree ==
  pc = "ready" =>
    \A i \in DOMAIN Nodes :
      TacticMapHas(Nodes[i].tactic_id) =>
        ToLowerCase(Nodes[i].tactic_name)
          = ToLowerCase(TacticMapGet(Nodes[i].tactic_id))

\* C29: once a change of a checkbox has been handled, the timeline drawn
\* shows no card of a tactic whose checkbox is unchecked, and activeTactics
\* is the set of the tactics whose checkbox is checked ("Unknown", which has
\* no checkbox, left aside).
C29_FilterFollowsCheckboxes ==
  (timeline.view = "timeline" /\ timeline.listeners = "attached"
     /\ timeline.lastChange # <<>>) =>
    /\ \A i \in DOMAIN timeline.cards :
         timeline.cards[i].tactic_name \in timeline.boxes
           => timeline.cards[i].tactic_name \in timeline.checked
    /\ timeline.activeTactics \ {StrUnknown} = timeline.checked \ {StrALL}

\* C30: the status message is hidden only by hideError or by the timer of
\* the show call that displayed it: a step that hides it without a new
\* message being shown is the firing of that call's own timer.
C30_OnlyOwnTimerHides ==
  [][(status.visible /\ ~status'.visible)
       => <<status.shownBy, 0>> \in (status.timers \ status'.timers)]_vars

====
